---- MODULE Spec2Model ----
(***************************************************************************)
(* PlayMusic local API (server/index.js): two in-memory collections,       *)
(* tracks and videos, each mirrored to a JSON file, served by an Express   *)
(* router.  JavaScript values are tagged records, JSON text is modelled by *)
(* the value it parses to, strings are TLA+ strings handled character by   *)
(* character.                                                              *)
(* PlayMusic mobile client (the player of the tab screen): the component's *)
(* state and refs, its playTrack invocations from await to await, the      *)
(* sounds expo-av made for it and the requests sent to them.               *)
(***************************************************************************)
EXTENDS Integers, Sequences, FiniteSets, TLC

VARIABLES
  tracks,      \* let tracks = loadTracks()          (index.js:47)
  videos,      \* let videos = loadVideos()          (index.js:70)
  dataFile,    \* content of server/data.json        (serverDataPath)
  videosFile,  \* content of server/videos.json      (videosDataPath)
  seedFile,    \* content of assets/data/library.json (seedPath), read-only
  now,         \* the value Date.now() returns
  route,       \* which of Routes handled the last request (0: none since the start)
  reqBody,     \* req.body of that request
  resp,        \* the response that request was given
  wrote,       \* the files the last operation called writeFileSync on
  lastSave,    \* per collection, how this process's latest writeFileSync ended
  faults,      \* how many more writeFileSync calls the disk will fail
  inflight,    \* per client, the request it has on the wire and how it was answered
  player       \* the mounted TabIndex component of the mobile client and the sounds it made

vars == <<tracks, videos, dataFile, videosFile, seedFile, now, route, reqBody, resp, wrote,
          lastSave, faults, inflight, player>>

\* what the server process and its files hold
serverVars == <<tracks, videos, dataFile, videosFile, seedFile, now, route, reqBody, resp, wrote,
                lastSave, faults, inflight>>

-----------------------------------------------------------------------------
(* Bounds of the model *)

\* Date.now() ranges over 1..MaxClock
MaxClock == 2
\* a POST is issued only while the two collections hold fewer records than this
MaxRecords == 2
\* on a faulty disk writeFileSync fails at most this many times in a run
MaxWriteFailures == 1
\* where the order of records is followed, a POST is issued only while the two
\* collections hold fewer records than this
MaxOrdered == 3
\* the track list of the client holds at most this many tracks
MaxTracks == 2
\* createAsync makes at most this many sounds in a run
MaxSounds == 2
\* at most this many pauseAsync and playAsync requests are pending at a time
MaxPending == 2

-----------------------------------------------------------------------------
(* JavaScript values *)

Undefined == [type |-> "undefined"]
Null == [type |-> "null"]
Str(s) == [type |-> "string", val |-> s]
Num(n) == [type |-> "number", val |-> n]
Arr(a) == [type |-> "array", val |-> a]
Obj(o) == [type |-> "object", val |-> o]

\* !v is false
Truthy(v) ==
  CASE v.type = "undefined" -> FALSE
    [] v.type = "null" -> FALSE
    [] v.type = "string" -> v.val # ""
    [] v.type = "number" -> v.val # 0
    [] OTHER -> TRUE

\* property access o.k: a missing property reads as undefined
Get(o, k) == IF k \in DOMAIN o THEN o[k] ELSE Undefined

\* { ...a, ...b }: b's properties win
Spread(a, b) == [k \in DOMAIN a \cup DOMAIN b |-> IF k \in DOMAIN b THEN b[k] ELSE a[k]]

-----------------------------------------------------------------------------
(* Strings *)

UpperCaseLetters == "ABCDEFGHIJKLMNOPQRSTUVWXYZ"
LowerCaseLetters == "abcdefghijklmnopqrstuvwxyz"

CharAt(s, i) == SubSeq(s, i, i)

LowerChar(c) ==
  IF \E i \in 1..Len(UpperCaseLetters) : CharAt(UpperCaseLetters, i) = c
  THEN CharAt(LowerCaseLetters, CHOOSE i \in 1..Len(UpperCaseLetters) : CharAt(UpperCaseLetters, i) = c)
  ELSE c

RECURSIVE ToLowerCase(_)
\* String.prototype.toLowerCase
ToLowerCase(s) ==
  IF Len(s) = 0 THEN "" ELSE LowerChar(CharAt(s, 1)) \o ToLowerCase(SubSeq(s, 2, Len(s)))

\* String.prototype.includes
Includes(s, sub) == \E i \in 0..(Len(s) - Len(sub)) : SubSeq(s, i + 1, i + Len(sub)) = sub

\* Date.prototype.toISOString, for the instants 0..999 ms after the epoch
ToISOString(ms) ==
  "1970-01-01T00:00:00." \o (IF ms < 10 THEN "00" ELSE IF ms < 100 THEN "0" ELSE "") \o ToString(ms) \o "Z"

-----------------------------------------------------------------------------
(* JSON *)

\* JSON.stringify of an object, read back: properties whose value is undefined are dropped
StringifyRecord(o) == [k \in {j \in DOMAIN o : o[j] # Undefined} |-> o[k]]

\* JSON.stringify(arr, null, 2), as the value JSON.parse gives back for it
JSONStringify(arr) == [i \in 1..Len(arr) |-> StringifyRecord(arr[i])]

-----------------------------------------------------------------------------
(* Files *)

Absent == [state |-> "absent"]
Malformed == [state |-> "malformed"]
JsonFile(data) == [state |-> "json", data |-> data]

\* a write that appends the text to what the file holds (fs.appendFileSync)
WriteFileSyncAppends(file, data, nfault) ==
  {[file |-> JsonFile((IF file.state = "json" THEN file.data ELSE <<>>) \o data),
    ok |-> TRUE, faults |-> nfault]}
  \cup (IF nfault > 0
        THEN {[file |-> file, ok |-> FALSE, faults |-> nfault - 1],
              [file |-> Malformed, ok |-> FALSE, faults |-> nfault - 1]}
        ELSE {})

\* fs.writeFileSync(path, text): the file holds the text, or the call throws and
\* the file is left as it was or cut short
WriteFileSync(file, data, nfault) ==
  {[file |-> JsonFile(data), ok |-> TRUE, faults |-> nfault]}
  \cup (IF nfault > 0
        THEN {[file |-> file, ok |-> FALSE, faults |-> nfault - 1],
              [file |-> Malformed, ok |-> FALSE, faults |-> nfault - 1]}
        ELSE {})

-----------------------------------------------------------------------------
(* Inputs *)

Clocks == 1..MaxClock

\* the values of Math.floor(Math.random() * 10000) the model draws, out of 0..9999
RandomSuffixes == {7}

\* assets/data/library.json as bundled: the second entry carries an id of its own
SeedLibrary ==
  <<[url |-> Str("h.mp3"), title |-> Str("Hello World"), artist |-> Str("ABBA"),
     playlist |-> Arr(<<"Rock">>), rating |-> Num(5)],
    [id |-> Str("lib-2"), url |-> Str("s.mp3"), title |-> Str("Seed Song")]>>

SeedFiles == {Absent, JsonFile(SeedLibrary)}

\* bodies of POST /tracks
TrackBodies ==
  {[url |-> Str("a.mp3"), title |-> Str("Song A")],
   [url |-> Str("b.mp3"), title |-> Str("Hello World"), artist |-> Str("ABBA"),
    playlist |-> Arr(<<"Rock">>)],
   [title |-> Str("Song A")],
   [url |-> Null, title |-> Str("Song A")],
   [url |-> Str(""), title |-> Str("Song A")],
   [url |-> Str("a.mp3")],
   [url |-> Str("a.mp3"), title |-> Null],
   [url |-> Str("a.mp3"), title |-> Str("")]}

\* bodies of POST /videos
VideoBodies ==
  {[url |-> Str("v.mp4"), title |-> Str("Clip")],
   [localUri |-> Str("file:///c.mov"), title |-> Str("Hello Clip"), duration |-> Num(0)],
   [title |-> Str("Clip")],
   [url |-> Str("v.mp4")],
   [url |-> Str(""), localUri |-> Null, title |-> Str("Clip")],
   [url |-> Str("v.mp4"), title |-> Str("")]}

\* bodies the POST handlers accept, some with a title, url or artist that is not a string
LooseBodies(res) ==
  IF res = "tracks"
  THEN {[url |-> Str("a.mp3"), title |-> Str("Hello A")],
        [url |-> Str("n.mp3"), title |-> Num(5)],
        [url |-> Str("h.mp3"), title |-> Str("Song H"), artist |-> Null]}
  ELSE {[localUri |-> Str("file:///c.mov"), title |-> Str("Hello Clip")],
        [url |-> Str("v.mp4"), title |-> Num(5)]}

\* values of the query parameter q
Queries == {Undefined, Str(""), Str("HELLO")}

\* the string ids held by a collection
IdsOf(coll) == {coll[i].id.val : i \in {j \in 1..Len(coll) : Get(coll[j], "id").type = "string"}}

\* second path segments of the requests issued on a collection: its ids, "search"
\* and an id no record holds
SegmentsFor(coll) == {"search", "0-0"} \cup IdsOf(coll)

Segments == SegmentsFor(tracks) \cup SegmentsFor(videos)

EmptyBody == [k \in {} |-> Undefined]

-----------------------------------------------------------------------------
(* Store *)

\* generateId, index.js:16-18, for Date.now() = t and Math.floor(Math.random() * 10000) = r
generateId(t, r) == Str(ToString(t) \o "-" \o ToString(r))

\* the sequences of n clock reads Date.now() can answer from instant t on
ClockReads(n, t) ==
  {c \in [1..n -> t..MaxClock] : \A i \in 1..n : \A j \in i..n : c[i] <= c[j]}

\* loadTracks mapping the seed with { ...t, id: generateId() }
loadTracksOverwritesId(file, seed, t, nfault) ==
  IF file.state = "json"
  THEN {[tracks |-> file.data, file |-> file, now |-> t, wrote |-> {}, save |-> "none",
         faults |-> nfault]}
  ELSE IF seed.state = "json"
  THEN LET arr == seed.data
           n == Len(arr)
       IN UNION {
            LET mapped == [i \in 1..n |-> Spread(arr[i], [id |-> generateId(c[i], r[i])])]
                last == IF n = 0 THEN t ELSE c[n]
            IN {IF o.ok
                THEN [tracks |-> mapped, file |-> o.file, now |-> last,
                      wrote |-> {"data.json"}, save |-> "ok", faults |-> o.faults]
                ELSE [tracks |-> <<>>, file |-> o.file, now |-> last,
                      wrote |-> {"data.json"}, save |-> "failed", faults |-> o.faults]
                : o \in WriteFileSync(file, JSONStringify(mapped), nfault)}
            : c \in ClockReads(n, t), r \in [1..n -> RandomSuffixes]}
  ELSE {[tracks |-> <<>>, file |-> file, now |-> t, wrote |-> {}, save |-> "none",
         faults |-> nfault]}

\* loadTracks, index.js:20-45: every way it can end for the files it finds at instant t
loadTracks(file, seed, t, nfault) ==
  IF file.state = "json"
  THEN {[tracks |-> file.data, file |-> file, now |-> t, wrote |-> {}, save |-> "none",
         faults |-> nfault]}
  ELSE IF seed.state = "json"
  THEN LET arr == seed.data
           n == Len(arr)
       IN UNION {
            LET mapped == [i \in 1..n |-> Spread([id |-> generateId(c[i], r[i])], arr[i])]
                last == IF n = 0 THEN t ELSE c[n]
            IN {IF o.ok
                THEN [tracks |-> mapped, file |-> o.file, now |-> last,
                      wrote |-> {"data.json"}, save |-> "ok", faults |-> o.faults]
                ELSE [tracks |-> <<>>, file |-> o.file, now |-> last,
                      wrote |-> {"data.json"}, save |-> "failed", faults |-> o.faults]
                : o \in WriteFileSync(file, JSONStringify(mapped), nfault)}
            : c \in ClockReads(n, t), r \in [1..n -> RandomSuffixes]}
  ELSE {[tracks |-> <<>>, file |-> file, now |-> t, wrote |-> {}, save |-> "none",
         faults |-> nfault]}

\* loadVideos parsing videos.json without returning what it parsed
loadVideosDropsResult(file) == IF file.state = "json" THEN <<>> ELSE <<>>

\* loadVideos, index.js:50-60
loadVideos(file) == IF file.state = "json" THEN file.data ELSE <<>>

\* saveTracks called before the handler has updated tracks
saveTracksBeforeUpdate ==
  \E o \in WriteFileSync(dataFile, JSONStringify(tracks), faults) :
    /\ faults' = o.faults
    /\ dataFile' = o.file
    /\ lastSave' = [lastSave EXCEPT !.tracks = IF o.ok THEN "ok" ELSE "failed"]
    /\ wrote' = {"data.json"}

\* saveTracks, index.js:72-78, called once tracks has been updated
saveTracks ==
  \E o \in WriteFileSync(dataFile, JSONStringify(tracks'), faults) :
    /\ faults' = o.faults
    /\ dataFile' = o.file
    /\ lastSave' = [lastSave EXCEPT !.tracks = IF o.ok THEN "ok" ELSE "failed"]
    /\ wrote' = {"data.json"}

\* saveVideos, index.js:62-68
saveVideos(vs) ==
  \E o \in WriteFileSync(videosFile, JSONStringify(vs), faults) :
    /\ faults' = o.faults
    /\ videosFile' = o.file
    /\ lastSave' = [lastSave EXCEPT !.videos = IF o.ok THEN "ok" ELSE "failed"]
    /\ wrote' = {"videos.json"}

\* Array.prototype.findIndex on x.id === id, 0 standing for -1
FindIndex(coll, id) ==
  IF \E i \in 1..Len(coll) : Get(coll[i], "id") = Str(id)
  THEN CHOOSE i \in 1..Len(coll) :
         /\ Get(coll[i], "id") = Str(id)
         /\ \A j \in 1..(i - 1) : Get(coll[j], "id") # Str(id)
  ELSE 0

\* removal that fills the hole with the last element instead of shifting
SpliceSwapsLast(coll, idx) ==
  [i \in 1..(Len(coll) - 1) |-> IF i = idx THEN coll[Len(coll)] ELSE coll[i]]

\* Array.prototype.splice(idx, 1): the array without its idx-th element
Splice(coll, idx) == [i \in 1..(Len(coll) - 1) |-> IF i < idx THEN coll[i] ELSE coll[i + 1]]

\* res.status(s).json(b)
Respond(s, b) == resp' = [status |-> s, body |-> b]

NotFound == Obj([error |-> Str("Not found")])

-----------------------------------------------------------------------------
(* Router: the routes in the order index.js registers them *)

Routes ==
  <<[method |-> "GET", path |-> <<"tracks">>],
    [method |-> "GET", path |-> <<"tracks", ":id">>],
    [method |-> "POST", path |-> <<"tracks">>],
    [method |-> "DELETE", path |-> <<"tracks", ":id">>],
    [method |-> "GET", path |-> <<"tracks", "search">>],
    [method |-> "GET", path |-> <<"videos">>],
    [method |-> "GET", path |-> <<"videos", ":id">>],
    [method |-> "POST", path |-> <<"videos">>],
    [method |-> "DELETE", path |-> <<"videos", ":id">>],
    [method |-> "GET", path |-> <<"videos", "search">>]>>

\* a route's path pattern matches a request path: a ":name" segment matches any segment
PathMatches(pattern, path) ==
  /\ Len(pattern) = Len(path)
  /\ \A i \in 1..Len(pattern) : CharAt(pattern[i], 1) = ":" \/ pattern[i] = path[i]

\* Express hands the request to the first registered route that matches it
Dispatch(method, path) ==
  LET hits == {i \in 1..Len(Routes) : Routes[i].method = method /\ PathMatches(Routes[i].path, path)}
  IN IF hits = {} THEN 0 ELSE CHOOSE i \in hits : \A j \in hits : i <= j

-----------------------------------------------------------------------------
(* Handlers *)

\* GET /tracks, index.js:81-83
GetTracks ==
  /\ Respond(200, Arr(JSONStringify(tracks)))
  /\ wrote' = {}
  /\ UNCHANGED <<tracks, videos, dataFile, videosFile, now, lastSave, faults>>

\* GET /tracks/:id, index.js:86-90
GetTracksId(id) ==
  LET idx == FindIndex(tracks, id)
  IN /\ IF idx = 0 THEN Respond(404, NotFound)
                   ELSE Respond(200, Obj(StringifyRecord(tracks[idx])))
     /\ wrote' = {}
     /\ UNCHANGED <<tracks, videos, dataFile, videosFile, now, lastSave, faults>>

\* the record POST /tracks builds, index.js:94-96
NewTrack(body, t, r) ==
  [id |-> generateId(t, r), url |-> Get(body, "url"), title |-> Get(body, "title"),
   artist |-> Get(body, "artist"), artwork |-> Get(body, "artwork")]

\* POST /tracks rejecting a body only when both url and title are falsy
PostTracksBothMissing(body) ==
  LET url == Get(body, "url")
      title == Get(body, "title")
  IN IF ~Truthy(url) /\ ~Truthy(title)
     THEN /\ Respond(400, Obj([error |-> Str("url and title are required")]))
          /\ wrote' = {}
          /\ UNCHANGED <<tracks, videos, dataFile, videosFile, now, lastSave, faults>>
     ELSE \E r \in RandomSuffixes :
            LET t == [id |-> generateId(now, r), url |-> url, title |-> title,
                      artist |-> Get(body, "artist"), artwork |-> Get(body, "artwork")]
            IN /\ tracks' = Append(tracks, t)
               /\ saveTracks
               /\ Respond(201, Obj(StringifyRecord(t)))
               /\ UNCHANGED <<videos, videosFile, now>>

\* POST /tracks taking the push back and answering 500 when data.json cannot be written
PostTracksSurfacesFailure(body) ==
  LET url == Get(body, "url")
      title == Get(body, "title")
  IN IF ~Truthy(url) \/ ~Truthy(title)
     THEN /\ Respond(400, Obj([error |-> Str("url and title are required")]))
          /\ wrote' = {}
          /\ UNCHANGED <<tracks, videos, dataFile, videosFile, now, lastSave, faults>>
     ELSE \E r \in RandomSuffixes :
            LET t == [id |-> generateId(now, r), url |-> url, title |-> title,
                      artist |-> Get(body, "artist"), artwork |-> Get(body, "artwork")]
            IN \E o \in WriteFileSync(dataFile, JSONStringify(Append(tracks, t)), faults) :
                 /\ faults' = o.faults
                 /\ dataFile' = o.file
                 /\ lastSave' = [lastSave EXCEPT !.tracks = IF o.ok THEN "ok" ELSE "failed"]
                 /\ wrote' = {"data.json"}
                 /\ tracks' = IF o.ok THEN Append(tracks, t) ELSE tracks
                 /\ IF o.ok THEN Respond(201, Obj(StringifyRecord(t)))
                            ELSE Respond(500, Obj([error |-> Str("write failed")]))
                 /\ UNCHANGED <<videos, videosFile, now>>

\* POST /tracks, index.js:93-100
PostTracks(body) ==
  LET url == Get(body, "url")
      title == Get(body, "title")
  IN IF ~Truthy(url) \/ ~Truthy(title)
     THEN /\ Respond(400, Obj([error |-> Str("url and title are required")]))
          /\ wrote' = {}
          /\ UNCHANGED <<tracks, videos, dataFile, videosFile, now, lastSave, faults>>
     ELSE \E r \in RandomSuffixes :
            LET t == NewTrack(body, now, r)
            IN /\ tracks' = Append(tracks, t)
               /\ saveTracks
               /\ Respond(201, Obj(StringifyRecord(t)))
               /\ UNCHANGED <<videos, videosFile, now>>

\* DELETE /tracks/:id without the idx === -1 return: splice(-1, 1) drops the last record
DeleteTracksIdUnguarded(id) ==
  LET idx == FindIndex(tracks, id)
      at == IF idx = 0 THEN Len(tracks) ELSE idx
  IN /\ tracks' = IF at = 0 THEN tracks ELSE Splice(tracks, at)
     /\ saveTracks
     /\ Respond(200, IF at = 0 THEN Undefined ELSE Obj(StringifyRecord(tracks[at])))
     /\ UNCHANGED <<videos, videosFile, now>>

\* DELETE /tracks/:id, index.js:103-109
DeleteTracksId(id) ==
  LET idx == FindIndex(tracks, id)
  IN IF idx = 0
     THEN /\ Respond(404, NotFound)
          /\ wrote' = {}
          /\ UNCHANGED <<tracks, videos, dataFile, videosFile, now, lastSave, faults>>
     ELSE /\ tracks' = Splice(tracks, idx)
          /\ saveTracks
          /\ Respond(200, Obj(StringifyRecord(tracks[idx])))
          /\ UNCHANGED <<videos, videosFile, now>>

\* req.query.q?.toLowerCase() || ''
QueryOf(q) == IF q.type = "string" THEN ToLowerCase(q.val) ELSE ""

\* v?.toLowerCase().includes(query): "throw" when v is neither a string nor null nor undefined
FieldIncludes(v, query) ==
  CASE v.type \in {"undefined", "null"} -> "no"
    [] v.type = "string" -> IF Includes(ToLowerCase(v.val), query) THEN "yes" ELSE "no"
    [] OTHER -> "throw"

\* t.playlist && t.playlist.some(p => p.toLowerCase().includes(query))
PlaylistIncludes(pl, query) ==
  CASE ~Truthy(pl) -> "no"
    [] pl.type = "array" ->
         IF \E i \in 1..Len(pl.val) : Includes(ToLowerCase(pl.val[i]), query) THEN "yes" ELSE "no"
    [] OTHER -> "throw"

\* a || b on the three outcomes, b evaluated only when a is "no"
OrElse(a, b) == IF a = "no" THEN b ELSE a

\* the filter callback of index.js:115-120
TrackMatches(t, query) ==
  OrElse(FieldIncludes(Get(t, "title"), query),
  OrElse(FieldIncludes(Get(t, "artist"), query),
  OrElse(FieldIncludes(Get(t, "url"), query),
         PlaylistIncludes(Get(t, "playlist"), query))))

\* the filter callback of index.js:170-173
VideoMatches(v, query) ==
  OrElse(FieldIncludes(Get(v, "title"), query), FieldIncludes(Get(v, "url"), query))

\* the filter callback of the resource's search handler
Matches(res, record, query) ==
  IF res = "tracks" THEN TrackMatches(record, query) ELSE VideoMatches(record, query)

RECURSIVE Filter(_, _, _)
\* Array.prototype.filter with the resource's callback answering "yes"
Filter(coll, res, query) ==
  IF coll = <<>> THEN <<>>
  ELSE (IF Matches(res, Head(coll), query) = "yes" THEN <<Head(coll)>> ELSE <<>>)
       \o Filter(Tail(coll), res, query)

\* the body of a search handler, index.js:113-121 and 168-174; a callback that throws
\* makes Express answer 500
Search(coll, res, q) ==
  LET query == QueryOf(q)
  IN IF query = "" THEN [status |-> 200, body |-> Arr(<<>>)]
     ELSE IF \E i \in 1..Len(coll) : Matches(res, coll[i], query) = "throw"
     THEN [status |-> 500, body |-> Obj([error |-> Str("TypeError")])]
     ELSE [status |-> 200, body |-> Arr(JSONStringify(Filter(coll, res, query)))]

\* GET /tracks/search, index.js:112-122
GetTracksSearch(q) ==
  /\ resp' = Search(tracks, "tracks", q)
  /\ wrote' = {}
  /\ UNCHANGED <<tracks, videos, dataFile, videosFile, now, lastSave, faults>>

\* GET /videos, index.js:127-129
GetVideos ==
  /\ Respond(200, Arr(JSONStringify(videos)))
  /\ wrote' = {}
  /\ UNCHANGED <<tracks, videos, dataFile, videosFile, now, lastSave, faults>>

\* GET /videos/:id, index.js:132-136
GetVideosId(id) ==
  LET idx == FindIndex(videos, id)
  IN /\ IF idx = 0 THEN Respond(404, NotFound)
                   ELSE Respond(200, Obj(StringifyRecord(videos[idx])))
     /\ wrote' = {}
     /\ UNCHANGED <<tracks, videos, dataFile, videosFile, now, lastSave, faults>>

\* v || null
OrNull(v) == IF Truthy(v) THEN v ELSE Null

\* the record POST /videos builds at instant t, index.js:140-151
NewVideo(body, t, r) ==
  [id |-> generateId(t, r),
   url |-> OrNull(Get(body, "url")),
   localUri |-> OrNull(Get(body, "localUri")),
   title |-> Get(body, "title"),
   thumbnail |-> OrNull(Get(body, "thumbnail")),
   duration |-> OrNull(Get(body, "duration")),
   createdAt |-> Str(ToISOString(t))]

\* POST /videos asking for both url and localUri
PostVideosNeedsBoth(body) ==
  LET url == Get(body, "url")
      title == Get(body, "title")
      localUri == Get(body, "localUri")
  IN IF ~Truthy(url) \/ ~Truthy(localUri)
     THEN /\ Respond(400, Obj([error |-> Str("url or localUri is required")]))
          /\ wrote' = {}
          /\ UNCHANGED <<tracks, videos, dataFile, videosFile, now, lastSave, faults>>
     ELSE IF ~Truthy(title)
     THEN /\ Respond(400, Obj([error |-> Str("title is required")]))
          /\ wrote' = {}
          /\ UNCHANGED <<tracks, videos, dataFile, videosFile, now, lastSave, faults>>
     ELSE \E r \in RandomSuffixes, created \in {now} :
            LET v == [id |-> generateId(now, r),
                      url |-> OrNull(url),
                      localUri |-> OrNull(localUri),
                      title |-> title,
                      thumbnail |-> OrNull(Get(body, "thumbnail")),
                      duration |-> OrNull(Get(body, "duration")),
                      createdAt |-> Str(ToISOString(created))]
            IN /\ videos' = Append(videos, v)
               /\ saveVideos(videos')
               /\ Respond(201, Obj(StringifyRecord(v)))
               /\ now' = created
               /\ UNCHANGED <<tracks, dataFile>>

\* POST /videos, index.js:139-155; generateId and new Date() read the clock in the
\* same millisecond
PostVideos(body) ==
  LET url == Get(body, "url")
      title == Get(body, "title")
      localUri == Get(body, "localUri")
  IN IF ~Truthy(url) /\ ~Truthy(localUri)
     THEN /\ Respond(400, Obj([error |-> Str("url or localUri is required")]))
          /\ wrote' = {}
          /\ UNCHANGED <<tracks, videos, dataFile, videosFile, now, lastSave, faults>>
     ELSE IF ~Truthy(title)
     THEN /\ Respond(400, Obj([error |-> Str("title is required")]))
          /\ wrote' = {}
          /\ UNCHANGED <<tracks, videos, dataFile, videosFile, now, lastSave, faults>>
     ELSE \E r \in RandomSuffixes, created \in {now} :
            LET v == NewVideo(body, created, r)
            IN /\ videos' = Append(videos, v)
               /\ saveVideos(videos')
               /\ Respond(201, Obj(StringifyRecord(v)))
               /\ now' = created
               /\ UNCHANGED <<tracks, dataFile>>

\* DELETE /videos/:id, index.js:158-164
DeleteVideosId(id) ==
  LET idx == FindIndex(videos, id)
  IN IF idx = 0
     THEN /\ Respond(404, NotFound)
          /\ wrote' = {}
          /\ UNCHANGED <<tracks, videos, dataFile, videosFile, now, lastSave, faults>>
     ELSE /\ videos' = Splice(videos, idx)
          /\ saveVideos(videos')
          /\ Respond(200, Obj(StringifyRecord(videos[idx])))
          /\ UNCHANGED <<tracks, dataFile, now>>

\* GET /videos/search, index.js:167-175
GetVideosSearch(q) ==
  /\ resp' = Search(videos, "videos", q)
  /\ wrote' = {}
  /\ UNCHANGED <<tracks, videos, dataFile, videosFile, now, lastSave, faults>>

\* the handler of the i-th route, given the request's path parameter, query and body
Handle(i, id, q, body) ==
  CASE i = 1 -> GetTracks
    [] i = 2 -> GetTracksId(id)
    [] i = 3 -> PostTracks(body)
    [] i = 4 -> DeleteTracksId(id)
    [] i = 5 -> GetTracksSearch(q)
    [] i = 6 -> GetVideos
    [] i = 7 -> GetVideosId(id)
    [] i = 8 -> PostVideos(body)
    [] i = 9 -> DeleteVideosId(id)
    [] i = 10 -> GetVideosSearch(q)

-----------------------------------------------------------------------------
(* The mobile client's player: the component TabIndex and the sounds expo-av *)
(* makes for it.  Every render of the component makes new functions that     *)
(* close over the state of that render; the refs are shared by all renders.  *)

\* the urls a list may hold: a Track is modelled by its url, the one field the player's
\* logic reads
UrlNames == <<"a.mp3", "b.mp3", "c.mp3", "d.mp3">>

Urls == {UrlNames[i] : i \in 1..MaxTracks}

\* a url no list holds
AbsentUrl == "z.mp3"

\* null as the value of activeTrack and playingUrl, undefined as the element at an index
\* outside the array
NoTrack == ""

\* null as the value of sound; a sound made by createAsync is named by its rank
NoSound == 0

\* every list of tracks, one url possibly in several of them
TrackLists == UNION {[1..n -> Urls] : n \in 0..MaxTracks}

\* what fetch(API_BASE/tracks) or the bundled library.json may hold: the FlatList keys
\* its items by url, so no two tracks of a library share one, and the player compares
\* urls only for equality, so one list of each length stands for all of them
Libraries == {[i \in 1..n |-> UrlNames[i]] : n \in 0..MaxTracks}

\* the event just handled came to no call site of playTrack
NoCall == [fn |-> "", idx |-> -1, track |-> NoTrack, called |-> FALSE, started |-> FALSE]

\* the component after its first render: the useState and useRef initial values, the
\* fetch of loadTracksFromAPI under way, no playTrack running, no sound made, no
\* pauseAsync or playAsync pending
Mounted ==
  [tracks |-> <<>>, sound |-> NoSound, playingUrl |-> NoTrack, isPlaying |-> FALSE,
   activeTrack |-> NoTrack, isPlayingRef |-> FALSE, isLoadingRef |-> FALSE,
   fetching |-> TRUE, calls |-> <<>>, sounds |-> <<>>, requests |-> <<>>, log |-> NoCall]

\* the state the functions of the latest render close over
Render(p) == [tracks |-> p.tracks, sound |-> p.sound, activeTrack |-> p.activeTrack]

\* seq without its k-th element
Drop(seq, k) == SubSeq(seq, 1, k - 1) \o SubSeq(seq, k + 1, Len(seq))

\* tracks[i] of JavaScript, i counted from 0
At(list, i) == IF i \in 0..(Len(list) - 1) THEN list[i + 1] ELSE NoTrack

\* tracks.findIndex((t) => t.url === url)
findIndexByUrl(list, url) ==
  IF \E i \in 1..Len(list) : list[i] = url
  THEN (CHOOSE i \in 1..Len(list) : list[i] = url /\ \A j \in 1..(i - 1) : list[j] # url) - 1
  ELSE -1

\* the observer's note of the call site of playTrack the event just handled came to:
\* which function reached it, the index and the track it had picked, whether it called
\* playTrack, and whether that invocation went past its entry guard
Logged(p, q, fn, idx, track) ==
  [q EXCEPT !.log = [fn |-> fn, idx |-> idx, track |-> track, called |-> track # NoTrack,
                     started |-> Len(q.calls) > Len(p.calls)]]

\* playTrack, lines 150-152: what it resets before it asks for the new sound
beforeCreate(p) ==
  [p EXCEPT !.playingUrl = NoTrack, !.isPlaying = FALSE, !.isPlayingRef = FALSE]

\* playTrack without its entry guard
playTrackUnguarded(p, track, r) ==
  LET q == [p EXCEPT !.isLoadingRef = TRUE] IN
    IF r.sound # NoSound
    THEN [q EXCEPT !.calls = Append(@, [at |-> "stopAsync", track |-> track, render |-> r])]
    ELSE [beforeCreate(q) EXCEPT
            !.calls = Append(@, [at |-> "createAsync", track |-> track, render |-> r])]

\* playTrack(track) of render r, up to its first await: sound.stopAsync() when the
\* render has a sound, Audio.Sound.createAsync otherwise
playTrack(p, track, r) ==
  IF p.isLoadingRef
  THEN p
  ELSE LET q == [p EXCEPT !.isLoadingRef = TRUE] IN
         IF r.sound # NoSound
         THEN [q EXCEPT !.calls = Append(@, [at |-> "stopAsync", track |-> track, render |-> r])]
         ELSE [beforeCreate(q) EXCEPT
                 !.calls = Append(@, [at |-> "createAsync", track |-> track, render |-> r])]

\* findCurrentIndex() of render r
findCurrentIndex(r) ==
  IF r.activeTrack = NoTrack THEN -1 ELSE findIndexByUrl(r.tracks, r.activeTrack)

\* playNext that does not wrap around
playNextNoWrap(p, r) ==
  IF Len(r.tracks) = 0
  THEN Logged(p, p, "playNext", -1, NoTrack)
  ELSE LET idx == findCurrentIndex(r)
           nextIdx == IF idx < 0 THEN 0 ELSE idx + 1
           next == At(r.tracks, nextIdx)
       IN IF next # NoTrack
          THEN Logged(p, playTrack(p, next, r), "playNext", nextIdx, next)
          ELSE Logged(p, p, "playNext", nextIdx, NoTrack)

\* playNext() of render r
playNext(p, r) ==
  IF Len(r.tracks) = 0
  THEN Logged(p, p, "playNext", -1, NoTrack)
  ELSE LET idx == findCurrentIndex(r)
           nextIdx == IF idx < 0 THEN 0 ELSE (idx + 1) % Len(r.tracks)
           next == At(r.tracks, nextIdx)
       IN IF next # NoTrack
          THEN Logged(p, playTrack(p, next, r), "playNext", nextIdx, next)
          ELSE Logged(p, p, "playNext", nextIdx, NoTrack)

\* playPrevious() of render r
playPrevious(p, r) ==
  IF Len(r.tracks) = 0
  THEN Logged(p, p, "playPrevious", -1, NoTrack)
  ELSE LET idx == findCurrentIndex(r) IN
         IF idx <= 0
         THEN LET last == At(r.tracks, Len(r.tracks) - 1) IN
                IF last # NoTrack
                THEN Logged(p, playTrack(p, last, r), "playPrevious", Len(r.tracks) - 1, last)
                ELSE Logged(p, p, "playPrevious", Len(r.tracks) - 1, NoTrack)
         ELSE LET prev == At(r.tracks, idx - 1) IN
                IF prev # NoTrack
                THEN Logged(p, playTrack(p, prev, r), "playPrevious", idx - 1, prev)
                ELSE Logged(p, p, "playPrevious", idx - 1, NoTrack)

\* the callback playTrack gives setOnPlaybackStatusUpdate, run on the status of sound n;
\* its playNext is the one of the render whose playTrack made the sound
onPlaybackStatusUpdate(p, n, didJustFinish) ==
  IF p.sounds[n].loaded
  THEN LET playing == p.sounds[n].playing
           q == [p EXCEPT !.isPlaying = playing, !.isPlayingRef = playing]
       IN IF didJustFinish THEN playNext(q, p.sounds[n].render) ELSE q
  ELSE p

\* togglePlayPause() of render r, up to the request it sends to the sound
togglePlayPause(p, r) ==
  IF r.sound = NoSound
  THEN p
  ELSE LET currentPlaying == p.isPlayingRef IN
         [p EXCEPT !.isPlaying = ~currentPlaying,
                   !.isPlayingRef = ~currentPlaying,
                   !.requests = Append(@, [sound |-> r.sound,
                                           op |-> IF currentPlaying THEN "pauseAsync"
                                                                    ELSE "playAsync"])]

-----------------------------------------------------------------------------
(* The process and its clients *)

Resources == {"tracks", "videos"}

NoResponse == [status |-> 0, body |-> Undefined]

\* the clients that may have a request on the wire at the same time
Clients == {1, 2}

\* a client with no request sent
Idle ==
  [state |-> "idle", method |-> "", res |-> "", seg |-> "", body |-> EmptyBody,
   status |-> 0, overlap |-> FALSE]

\* no connection is open
NoneInFlight == [c \in Clients |-> Idle]

\* node index.js on the files found (index.js:47 and 70), on a disk that will fail nfault writes
Start(file, vfile, seed, t, nfault) ==
  \E o \in loadTracks(file, seed, t, nfault) :
    /\ tracks = o.tracks
    /\ dataFile = o.file
    /\ now = o.now
    /\ wrote = o.wrote
    /\ lastSave = [tracks |-> o.save, videos |-> "none"]
    /\ faults = o.faults
    /\ videos = loadVideos(vfile)
    /\ videosFile = vfile
    /\ seedFile = seed
    /\ route = 0
    /\ reqBody = EmptyBody
    /\ resp = NoResponse
    /\ inflight = NoneInFlight

\* first run, neither data.json nor videos.json exists yet, on a disk that never fails
Init == \E seed \in SeedFiles : Start(Absent, Absent, seed, 1, 0) /\ player = Mounted

\* the process is stopped and started again
Restart ==
  \E o \in loadTracks(dataFile, seedFile, now, faults) :
    /\ tracks' = o.tracks
    /\ dataFile' = o.file
    /\ now' = o.now
    /\ wrote' = o.wrote
    /\ lastSave' = [tracks |-> o.save, videos |-> "none"]
    /\ faults' = o.faults
    /\ videos' = loadVideos(videosFile)
    /\ route' = 0
    /\ reqBody' = EmptyBody
    /\ resp' = NoResponse
    /\ inflight' = NoneInFlight
    /\ UNCHANGED <<videosFile, seedFile, player>>

\* a millisecond passes
Tick ==
  /\ now < MaxClock
  /\ now' = now + 1
  /\ UNCHANGED <<tracks, videos, dataFile, videosFile, seedFile, route, reqBody, resp, wrote,
                 lastSave, faults, inflight, player>>

\* Express picks the route of a request and runs its handler, which has no await and
\* no callback: it returns only once it has updated the array, written the file and
\* answered
Handled(method, path, id, q, body) ==
  /\ route' = Dispatch(method, path)
  /\ reqBody' = body
  /\ Handle(route', id, q, body)
  /\ UNCHANGED <<seedFile, player>>

\* one request, sent and handled while no other is on the wire
Request(method, path, id, q, body) ==
  /\ Handled(method, path, id, q, body)
  /\ UNCHANGED inflight

\* GET /<res>
Get1(res) == Request("GET", <<res>>, "", Undefined, EmptyBody)

\* GET /<res>/<seg>?q=<q>
Get2(res, seg, q) == Request("GET", <<res, seg>>, seg, q, EmptyBody)

\* POST /<res> with the body
Post1(res, body) ==
  /\ Len(tracks) + Len(videos) < MaxRecords
  /\ Request("POST", <<res>>, "", Undefined, body)

\* DELETE /<res>/<seg>
Delete2(res, seg) == Request("DELETE", <<res, seg>>, seg, Undefined, EmptyBody)

HttpGetCollection == \E res \in Resources : Get1(res)

HttpGetItem ==
  \E res \in Resources :
    \E seg \in SegmentsFor(IF res = "tracks" THEN tracks ELSE videos) :
      \E q \in IF seg = "search" THEN Queries ELSE {Undefined} : Get2(res, seg, q)

HttpPost ==
  \E res \in Resources :
    \E body \in IF res = "tracks" THEN TrackBodies ELSE VideoBodies : Post1(res, body)

HttpDelete ==
  \E res \in Resources :
    \E seg \in SegmentsFor(IF res = "tracks" THEN tracks ELSE videos) : Delete2(res, seg)

Next ==
  \/ HttpGetCollection
  \/ HttpGetItem
  \/ HttpPost
  \/ HttpDelete
  \/ Tick
  \/ Restart

Spec == Init /\ [][Next]_vars

\* the same server on a disk that fails up to MaxWriteFailures writes
InitFaulty ==
  \E seed \in SeedFiles : Start(Absent, Absent, seed, 1, MaxWriteFailures) /\ player = Mounted

\* a create request the handler accepts
StoreCreate ==
  \E res \in Resources :
    \E body \in IF res = "tracks" THEN TrackBodies ELSE VideoBodies :
      /\ Truthy(Get(body, "title"))
      /\ Truthy(Get(body, "url")) \/ (res = "videos" /\ Truthy(Get(body, "localUri")))
      /\ Post1(res, body)

\* a delete request for a record the collection holds
StoreDelete ==
  \E res \in Resources :
    \E seg \in IdsOf(IF res = "tracks" THEN tracks ELSE videos) : Delete2(res, seg)

NextStore ==
  \/ StoreCreate
  \/ StoreDelete
  \/ Tick
  \/ Restart

\* creates, deletes and restarts on a disk that fails up to MaxWriteFailures writes
SpecFaulty == InitFaulty /\ [][NextStore]_vars

\* a GET /<res>/<seg> for an id the collection holds, an id it lacks, or "search"
StoreGet ==
  \E res \in Resources :
    \E seg \in SegmentsFor(IF res = "tracks" THEN tracks ELSE videos) :
      Get2(res, seg, IF seg = "search" THEN Str("HELLO") ELSE Undefined)

\* the bodies a create handler accepts
AcceptedBodies(res) ==
  IF res = "tracks"
  THEN {b \in TrackBodies : Truthy(Get(b, "url")) /\ Truthy(Get(b, "title"))}
  ELSE {b \in VideoBodies :
          (Truthy(Get(b, "url")) \/ Truthy(Get(b, "localUri"))) /\ Truthy(Get(b, "title"))}

\* the process is answering requests: it has not died inside a handler
Alive == route = 0 \/ resp # NoResponse

\* where a handler is when the process dies: after its push or splice and before
\* writeFileSync is called, inside writeFileSync with the file cut short, or after
\* writeFileSync has returned and before the response is sent
DeathPoints == {"before write", "in write", "after write"}

\* what the file holds when the process dies at that point of a handler that was
\* about to write data
FileAtDeath(file, data, at) ==
  CASE at = "before write" -> file
    [] at = "in write" -> Malformed
    [] at = "after write" -> JsonFile(data)

\* the process dies while it handles a POST /tracks or DELETE /tracks/:id it accepts
KillInTracks(at) ==
  /\ \/ \E body \in AcceptedBodies("tracks"), r \in RandomSuffixes :
          /\ Len(tracks) + Len(videos) < MaxRecords
          /\ tracks' = Append(tracks, NewTrack(body, now, r))
          /\ route' = 3
          /\ reqBody' = body
     \/ \E seg \in IdsOf(tracks) :
          /\ tracks' = Splice(tracks, FindIndex(tracks, seg))
          /\ route' = 4
          /\ reqBody' = EmptyBody
  /\ dataFile' = FileAtDeath(dataFile, JSONStringify(tracks'), at)
  /\ wrote' = IF at = "before write" THEN {} ELSE {"data.json"}
  /\ UNCHANGED <<videos, videosFile>>

\* the process dies while it handles a POST /videos or DELETE /videos/:id it accepts
KillInVideos(at) ==
  /\ \/ \E body \in AcceptedBodies("videos"), r \in RandomSuffixes :
          /\ Len(tracks) + Len(videos) < MaxRecords
          /\ videos' = Append(videos, NewVideo(body, now, r))
          /\ route' = 8
          /\ reqBody' = body
     \/ \E seg \in IdsOf(videos) :
          /\ videos' = Splice(videos, FindIndex(videos, seg))
          /\ route' = 9
          /\ reqBody' = EmptyBody
  /\ videosFile' = FileAtDeath(videosFile, JSONStringify(videos'), at)
  /\ wrote' = IF at = "before write" THEN {} ELSE {"videos.json"}
  /\ UNCHANGED <<tracks, dataFile>>

\* the process is killed inside a handler: no response is sent, tracks and videos are
\* what its memory held when it died
Kill ==
  /\ Alive
  /\ \E at \in DeathPoints : KillInTracks(at) \/ KillInVideos(at)
  /\ resp' = NoResponse
  /\ UNCHANGED <<seedFile, now, lastSave, faults, inflight, player>>

LiveCreate == Alive /\ StoreCreate

LiveDelete == Alive /\ StoreDelete

LiveGet == Alive /\ (HttpGetCollection \/ StoreGet)

NextCrash ==
  \/ LiveCreate
  \/ LiveDelete
  \/ LiveGet
  \/ Tick
  \/ Kill
  \/ Restart

\* creates, deletes, reads, kills and restarts on a disk that never fails a write
SpecCrash == Init /\ [][NextCrash]_vars

\* a create request the handler accepts, while fewer than MaxOrdered records are held
OrderedCreate ==
  \E res \in Resources :
    \E body \in AcceptedBodies(res) :
      /\ Len(tracks) + Len(videos) < MaxOrdered
      /\ Request("POST", <<res>>, "", Undefined, body)

NextOrder ==
  \/ OrderedCreate
  \/ StoreDelete
  \/ HttpGetCollection
  \/ Tick

\* creates, deletes and lists of one process on a disk that never fails a write
SpecOrder == Init /\ [][NextOrder]_vars

\* a POST whose body passes the handler's checks of url and title
LooseCreate ==
  \E res \in Resources :
    \E body \in LooseBodies(res) : Post1(res, body)

\* the callback of app.get('/tracks/search') resp. app.get('/videos/search') is run on
\* a request with query parameter q
SearchHandler(res, q) ==
  /\ route' = IF res = "tracks" THEN 5 ELSE 10
  /\ reqBody' = EmptyBody
  /\ IF res = "tracks" THEN GetTracksSearch(q) ELSE GetVideosSearch(q)
  /\ UNCHANGED <<seedFile, inflight, player>>

SearchAny == \E res \in Resources, q \in Queries : SearchHandler(res, q)

NextSearch ==
  \/ LooseCreate
  \/ StoreDelete
  \/ SearchAny
  \/ Tick

\* the search callbacks run on the collections a start and accepted POSTs produce
SpecSearch == Init /\ [][NextSearch]_vars

\* client c sends a create or delete the handler will accept; the requests of the
\* other clients still on the wire are from then on simultaneous with it
Send(c) ==
  /\ inflight[c].state # "sent"
  /\ \E res \in Resources :
       \E q \in {[method |-> "POST", seg |-> "", body |-> b] : b \in AcceptedBodies(res)}
                \cup {[method |-> "DELETE", seg |-> g, body |-> EmptyBody] :
                         g \in IdsOf(IF res = "tracks" THEN tracks ELSE videos)} :
         /\ q.method = "POST" =>
              Len(tracks) + Len(videos)
                + Cardinality({d \in Clients : inflight[d].state = "sent"
                                                /\ inflight[d].method = "POST"}) < MaxRecords
         /\ inflight' =
              [d \in Clients |->
                 IF d = c
                 THEN [state |-> "sent", method |-> q.method, res |-> res, seg |-> q.seg,
                       body |-> q.body, status |-> 0,
                       overlap |-> \E e \in Clients \ {c} : inflight[e].state = "sent"]
                 ELSE IF inflight[d].state = "sent"
                 THEN [inflight[d] EXCEPT !.overlap = TRUE]
                 ELSE inflight[d]]
  /\ UNCHANGED <<tracks, videos, dataFile, videosFile, seedFile, now, route, reqBody, resp,
                 wrote, lastSave, faults, player>>

\* the event loop takes one of the requests received and runs its handler, to the end
Serve(c) ==
  /\ inflight[c].state = "sent"
  /\ Handled(inflight[c].method,
             IF inflight[c].method = "POST" THEN <<inflight[c].res>>
                                            ELSE <<inflight[c].res, inflight[c].seg>>,
             inflight[c].seg, Undefined, inflight[c].body)
  /\ inflight' = [inflight EXCEPT ![c].state = "answered", ![c].status = resp'.status]

SendAny == \E c \in Clients : Send(c)

ServeAny == \E c \in Clients : Serve(c)

NextRace ==
  \/ SendAny
  \/ ServeAny

\* clients that keep sending creates and deletes at the same time, on a disk that never
\* fails a write; the event loop serves every request it has received
SpecRace ==
  /\ Init
  /\ [][NextRace]_vars
  /\ \A c \in Clients : WF_vars(Send(c)) /\ WF_vars(Serve(c))

NextObserved ==
  \/ StoreCreate
  \/ StoreDelete
  \/ HttpGetCollection
  \/ StoreGet

\* creates, deletes and reads of one process on a disk that fails up to MaxWriteFailures writes
SpecObserved == InitFaulty /\ [][NextObserved]_vars

-----------------------------------------------------------------------------
(* The player's events *)

\* the API is not reached by the client: no server process, no files
NoServer == Start(Absent, Absent, Absent, 1, 0)

\* the app is opened
InitPlayer == NoServer /\ player = Mounted

\* an event of the client that comes to a call site of playTrack: the server is not
\* involved
PlayerCall(q) ==
  /\ player' = q
  /\ UNCHANGED serverVars

\* an event of the client that comes to no call site of playTrack
PlayerStep(q) == PlayerCall([q EXCEPT !.log = NoCall])

\* a call of playTrack is let in only while the sounds made are fewer than MaxSounds,
\* or while it returns at once
MayLoad == player.isLoadingRef \/ Len(player.sounds) < MaxSounds

\* loadTracksFromAPI comes to its setTracks: the list the API gave or the bundled one
LoadTracksFromAPI ==
  /\ player.fetching
  /\ \E list \in Libraries :
       PlayerStep([player EXCEPT !.tracks = list, !.fetching = FALSE])

\* an item of the list is pressed
PressItem ==
  /\ MayLoad
  /\ \E i \in 1..Len(player.tracks) :
       PlayerCall(Logged(player, playTrack(player, player.tracks[i], Render(player)),
                         "onPress", i - 1, player.tracks[i]))

\* playNext is called with the state of the latest render
CallPlayNext == MayLoad /\ PlayerCall(playNext(player, Render(player)))

\* playPrevious is called with the state of the latest render
CallPlayPrevious == MayLoad /\ PlayerCall(playPrevious(player, Render(player)))

\* the bottom player, with its three buttons, is rendered only for an active track
PressNext == player.activeTrack # NoTrack /\ CallPlayNext

PressPrevious == player.activeTrack # NoTrack /\ CallPlayPrevious

PressPlayPause ==
  /\ player.activeTrack # NoTrack
  /\ Len(player.requests) < MaxPending
  /\ PlayerStep(togglePlayPause(player, Render(player)))

\* playTrack after `await sound.stopAsync()`: it resolved, the sound reporting its new
\* status to its callback, or it threw, which playTrack logs before going on
StopSettled ==
  \E k \in 1..Len(player.calls), ok \in BOOLEAN :
    LET s == player.calls[k].render.sound IN
      /\ player.calls[k].at = "stopAsync"
      /\ IF ok
         THEN /\ player.sounds[s].loaded
              /\ PlayerStep(
                   [onPlaybackStatusUpdate([player EXCEPT !.sounds[s].playing = FALSE], s, FALSE)
                      EXCEPT !.calls[k].at = "unloadAsync"])
         ELSE PlayerStep(beforeCreate([player EXCEPT !.sound = NoSound,
                                                     !.calls[k].at = "createAsync"]))

\* playTrack after `await sound.unloadAsync()`, resolved or thrown: setSound(null), the
\* resets, and the call of createAsync
UnloadSettled ==
  \E k \in 1..Len(player.calls), ok \in BOOLEAN :
    LET s == player.calls[k].render.sound
        p == IF ok THEN [player EXCEPT !.sounds[s].loaded = FALSE, !.sounds[s].playing = FALSE]
                   ELSE player
    IN /\ player.calls[k].at = "unloadAsync"
       /\ PlayerStep(beforeCreate([p EXCEPT !.sound = NoSound, !.calls[k].at = "createAsync"]))

\* playTrack after createAsync resolved with a sound that plays: the setters, the status
\* callback given to the sound, and the finally block
CreateResolved ==
  \E k \in 1..Len(player.calls) :
    LET c == player.calls[k] IN
      /\ c.at = "createAsync"
      /\ Len(player.sounds) < MaxSounds
      /\ PlayerStep([player EXCEPT
                       !.sounds = Append(@, [loaded |-> TRUE, playing |-> TRUE,
                                             render |-> c.render]),
                       !.sound = Len(player.sounds) + 1,
                       !.playingUrl = c.track,
                       !.isPlaying = TRUE,
                       !.isPlayingRef = TRUE,
                       !.activeTrack = c.track,
                       !.isLoadingRef = FALSE,
                       !.calls = Drop(@, k)])

\* playTrack after createAsync threw: the catch block and the finally block
CreateThrew ==
  \E k \in 1..Len(player.calls) :
    /\ player.calls[k].at = "createAsync"
    /\ PlayerStep([player EXCEPT !.isPlaying = FALSE,
                                 !.isPlayingRef = FALSE,
                                 !.isLoadingRef = FALSE,
                                 !.calls = Drop(@, k)])

\* a sound that plays reports its progress
Progress ==
  \E n \in 1..Len(player.sounds) :
    /\ player.sounds[n].loaded /\ player.sounds[n].playing
    /\ PlayerStep(onPlaybackStatusUpdate(player, n, FALSE))

\* a sound plays to its end and reports didJustFinish
Finish ==
  \E n \in 1..Len(player.sounds) :
    /\ player.sounds[n].loaded /\ player.sounds[n].playing
    /\ MayLoad
    /\ PlayerCall(onPlaybackStatusUpdate([player EXCEPT !.sounds[n].playing = FALSE], n, TRUE))

\* a pauseAsync or playAsync resolves: the sound pauses or plays and reports its status
RequestResolved ==
  \E i \in 1..Len(player.requests) :
    LET req == player.requests[i] IN
      /\ player.sounds[req.sound].loaded
      /\ PlayerStep(onPlaybackStatusUpdate(
                      [player EXCEPT !.sounds[req.sound].playing = (req.op = "playAsync"),
                                     !.requests = Drop(@, i)],
                      req.sound, FALSE))

\* a pauseAsync or playAsync rejects: the sound is left as it was and the .catch of
\* togglePlayPause runs
RequestRejected ==
  \E i \in 1..Len(player.requests) :
    LET req == player.requests[i] IN
      PlayerStep([player EXCEPT !.isPlaying = (req.op = "pauseAsync"),
                                !.isPlayingRef = (req.op = "pauseAsync"),
                                !.requests = Drop(@, i)])

NextPlayer ==
  \/ LoadTracksFromAPI
  \/ PressItem
  \/ PressNext
  \/ PressPrevious
  \/ PressPlayPause
  \/ StopSettled
  \/ UnloadSettled
  \/ CreateResolved
  \/ CreateThrew
  \/ Progress
  \/ Finish
  \/ RequestResolved
  \/ RequestRejected

\* the app from its opening on, under every order of presses, sound events and settled
\* promises
SpecPlayer == InitPlayer /\ [][NextPlayer]_vars

NextLoad ==
  \/ LoadTracksFromAPI
  \/ PressItem
  \/ PressNext
  \/ PressPrevious
  \/ StopSettled
  \/ UnloadSettled
  \/ CreateResolved
  \/ CreateThrew
  \/ Progress
  \/ Finish

\* the app with every caller of playTrack at work and the play/pause button left alone:
\* togglePlayPause neither calls playTrack nor reads or writes isLoadingRef
SpecLoad == InitPlayer /\ [][NextLoad]_vars

\* the lists and active tracks playNext and playPrevious may be given
SelectInputs ==
  {[Mounted EXCEPT !.tracks = list, !.activeTrack = a, !.fetching = FALSE] :
     list \in TrackLists, a \in Urls \cup {NoTrack, AbsentUrl}}

InitSelect == NoServer /\ player \in SelectInputs

NextSelect ==
  \/ CallPlayNext
  \/ CallPlayPrevious
  \/ StopSettled
  \/ UnloadSettled
  \/ CreateResolved
  \/ CreateThrew

\* playNext and playPrevious applied to every list and every active track, each playTrack
\* they start run to its end
SpecSelect == InitSelect /\ [][NextSelect]_vars

-----------------------------------------------------------------------------
(* Vocabulary of the properties *)

Coll(res) == IF res = "tracks" THEN tracks ELSE videos
CollNext(res) == IF res = "tracks" THEN tracks' ELSE videos'

\* a body field that is missing, null or the empty string
Lacks(v) == v \in {Undefined, Null, Str("")}

\* the array arr of a response body holds the record as JSON
Contains(b, record) ==
  /\ b.type = "array"
  /\ \E k \in 1..Len(b.val) : b.val[k] = StringifyRecord(record)

SongA == [url |-> Str("a.mp3"), title |-> Str("Song A")]

IsSongA(t) == Get(t, "url") = Str("a.mp3") /\ Get(t, "title") = Str("Song A")

\* the last request was answered with status st by route r
Answered(r, st) == route = r /\ resp.status = st

FileOf(res) == IF res = "tracks" THEN dataFile ELSE videosFile
FileNext(res) == IF res = "tracks" THEN dataFile' ELSE videosFile'

\* the routes of POST /<res> and DELETE /<res>/:id
CreateRoute(res) == IF res = "tracks" THEN 3 ELSE 8
DeleteRoute(res) == IF res = "tracks" THEN 4 ELSE 9

\* the records of a collection, as JSON, whose id is the string seg
RecordsWithId(coll, seg) ==
  {StringifyRecord(coll[i]) : i \in {j \in 1..Len(coll) : Get(coll[j], "id") = Str(seg)}}

-----------------------------------------------------------------------------
(* C1 *)

\* C1, as claimed: POST /tracks {url:"a.mp3", title:"Song A"} answers 201 with a
\* generated id; from then on GET /tracks answers an array holding the record, GET
\* /tracks/search?q=song is handled by the search route and answers an array holding
\* the record, DELETE /tracks/<its id> answers 200 with the record, and the GET
\* /tracks/<its id> that follows that DELETE answers 404.
C1_EndToEnd ==
  [][/\ Post1("tracks", SongA) =>
          /\ resp'.status = 201
          /\ resp'.body.type = "object"
          /\ Get(resp'.body.val, "id").type = "string"
          /\ Get(resp'.body.val, "id").val # ""
          /\ IsSongA(resp'.body.val)
     /\ \A i \in 1..Len(tracks) :
          IsSongA(tracks[i]) /\ Get(tracks[i], "id").type = "string" =>
            /\ Get1("tracks") => resp'.status = 200 /\ Contains(resp'.body, tracks[i])
            /\ Get2("tracks", "search", Str("song")) =>
                 route' = 5 /\ resp'.status = 200 /\ Contains(resp'.body, tracks[i])
            /\ Delete2("tracks", tracks[i].id.val) =>
                 resp'.status = 200 /\ resp'.body = Obj(StringifyRecord(tracks[i]))
     /\ Answered(4, 200) /\ Get(resp.body.val, "id").type = "string"
        /\ Get2("tracks", resp.body.val.id.val, Undefined) => resp'.status = 404
    ]_vars

-----------------------------------------------------------------------------
(* C2 *)

\* C2, as claimed: in each collection every record has a non-empty id and no two
\* records have the same id.
C2_UniqueIds ==
  \A res \in Resources :
    \A i \in 1..Len(Coll(res)) :
      /\ Get(Coll(res)[i], "id") \notin {Undefined, Null, Str("")}
      /\ \A j \in 1..Len(Coll(res)) : i # j => Get(Coll(res)[i], "id") # Get(Coll(res)[j], "id")

-----------------------------------------------------------------------------
(* C3 *)

\* C3, as claimed: DELETE /<resource>/<id> for an id some record holds answers 200
\* with the removed record, the collection gets one record shorter and holds no
\* record with that id any more, and the GET /<resource> that follows lists none.
C3_DeleteKnownId ==
  [][/\ \A res \in Resources, seg \in Segments :
          seg \in IdsOf(Coll(res)) /\ Delete2(res, seg) =>
            /\ resp'.status = 200
            /\ resp'.body.type = "object"
            /\ Get(resp'.body.val, "id") = Str(seg)
            /\ Len(CollNext(res)) = Len(Coll(res)) - 1
            /\ seg \notin IdsOf(CollNext(res))
     /\ \A res \in Resources :
          /\ Answered(IF res = "tracks" THEN 4 ELSE 9, 200)
          /\ Get1(res)
          => /\ resp'.body.type = "array"
             /\ \A k \in 1..Len(resp'.body.val) :
                  Get(resp'.body.val[k], "id") # Get(resp.body.val, "id")
    ]_vars

-----------------------------------------------------------------------------
(* C4 *)

\* C4: DELETE /<resource>/<id> for an id no record of the collection holds answers
\* 404 {error:"Not found"}, leaves both collections and both files as they were and
\* calls writeFileSync on no file.
C4_DeleteUnknownId ==
  [][route' \in {4, 9} =>
       \A res \in Resources, seg \in Segments :
         seg \notin IdsOf(Coll(res)) /\ Delete2(res, seg) =>
           /\ resp' = [status |-> 404, body |-> Obj([error |-> Str("Not found")])]
           /\ UNCHANGED <<tracks, videos, dataFile, videosFile>>
           /\ wrote' = {}
    ]_vars

\* C4's case: a DELETE was answered 404 by a server that holds records
C4_Witness ==
  \E res \in Resources :
    Answered(IF res = "tracks" THEN 4 ELSE 9, 404) /\ Len(Coll(res)) > 0 /\ wrote = {}

-----------------------------------------------------------------------------
(* C5 *)

\* C5: POST /tracks with a body whose url or title is missing, null or empty answers
\* 400 {error:"url and title are required"}, leaves the tracks collection and
\* data.json as they were and calls writeFileSync on no file.
C5_PostTracksInvalid ==
  [][route' = 3 =>
       \A body \in TrackBodies :
         (Lacks(Get(body, "url")) \/ Lacks(Get(body, "title"))) /\ Post1("tracks", body) =>
           /\ resp' = [status |-> 400,
                       body |-> Obj([error |-> Str("url and title are required")])]
           /\ UNCHANGED <<tracks, dataFile>>
           /\ wrote' = {}
    ]_vars

\* C5's case: a POST /tracks without a title was answered 400 while tracks were stored
C5_Witness ==
  /\ Answered(3, 400)
  /\ Lacks(Get(reqBody, "title"))
  /\ Len(tracks) > 0

-----------------------------------------------------------------------------
(* C6 *)

\* C6: POST /videos with a body that lacks a title, or lacks both url and localUri,
\* answers 400 and leaves the videos collection and videos.json as they were; with
\* a title and at least one of url and localUri it answers 201 with the new record
\* and appends exactly that one record.
C6_PostVideos ==
  [][\A body \in IF route' = 8 THEN VideoBodies ELSE {} :
       Post1("videos", body) =>
         IF Lacks(Get(body, "title")) \/ (Lacks(Get(body, "url")) /\ Lacks(Get(body, "localUri")))
         THEN /\ resp'.status = 400
              /\ UNCHANGED <<videos, videosFile>>
              /\ wrote' = {}
         ELSE /\ resp'.status = 201
              /\ Len(videos') = Len(videos) + 1
              /\ SubSeq(videos', 1, Len(videos)) = videos
              /\ resp'.body = Obj(StringifyRecord(videos'[Len(videos')]))
    ]_vars

\* C6's case: a POST /videos with a title but neither url nor localUri was answered 400
C6_Witness ==
  /\ Answered(8, 400)
  /\ ~Lacks(Get(reqBody, "title"))
  /\ Lacks(Get(reqBody, "url")) /\ Lacks(Get(reqBody, "localUri"))

-----------------------------------------------------------------------------
(* C7 *)

\* C7, as claimed, for the fields POST /tracks reads from the body (url, title,
\* artist, artwork): right after a POST /tracks answered 201 with id i, GET
\* /tracks/i answers 200 with a record in which each of them has the submitted value.
C7_GetAfterPost ==
  [][\A seg \in Segments :
       /\ Answered(3, 201)
       /\ Get(resp.body.val, "id") = Str(seg)
       /\ Get2("tracks", seg, Undefined)
       => /\ resp'.status = 200
          /\ resp'.body.type = "object"
          /\ \A k \in DOMAIN reqBody \cap {"url", "title", "artist", "artwork"} :
               Get(resp'.body.val, k) = reqBody[k]
    ]_vars

-----------------------------------------------------------------------------
(* C8 *)

\* C8, as claimed: GET /tracks/search and GET /videos/search with q empty or absent
\* answer 200 with an empty array, whatever the collections hold.
C8_SearchEmptyQuery ==
  [][\A res \in Resources, q \in {Undefined, Str("")} :
       Get2(res, "search", q) => resp' = [status |-> 200, body |-> Arr(<<>>)]
    ]_vars

-----------------------------------------------------------------------------
(* C9 *)

\* the record has q, lowercased, inside a lowercased searched field
MatchesQuery(res, record, q) ==
  \/ \E f \in IF res = "tracks" THEN {"title", "artist", "url"} ELSE {"title", "url"} :
       /\ Get(record, f).type = "string"
       /\ Includes(ToLowerCase(Get(record, f).val), ToLowerCase(q))
  \/ /\ res = "tracks"
     /\ Get(record, "playlist").type = "array"
     /\ \E i \in 1..Len(record.playlist.val) :
          Includes(ToLowerCase(record.playlist.val[i]), ToLowerCase(q))

\* C9, as claimed: for a non-empty q, GET /<resource>/search?q= answers 200 with
\* exactly the records that match q case-insensitively in a searched field, in the
\* collection's order, none repeated.
C9_SearchMatches ==
  [][\A res \in Resources, q \in Queries :
       q.type = "string" /\ q.val # "" /\ Get2(res, "search", q) =>
         resp' = [status |-> 200,
                  body |-> Arr(JSONStringify(
                             SelectSeq(Coll(res), LAMBDA r : MatchesQuery(res, r, q.val))))]
    ]_vars

-----------------------------------------------------------------------------
(* C10 *)

-----------------------------------------------------------------------------
(* C11 *)

\* C11: a create or delete whose writeFileSync fails still answers 201 resp. 200
\* with the created resp. removed record and keeps the change of the in-memory
\* collection; and every GET /<resource> answers the
\* in-memory collection, every GET /<resource>/<id> a record of it with that id, or
\* 404 when it holds none, whatever the file holds.
C11_WriteFailureSwallowed ==
  [][\A res \in Resources :
       /\ route' = CreateRoute(res) /\ faults' < faults =>
            /\ resp'.status = 201
            /\ Len(CollNext(res)) = Len(Coll(res)) + 1
            /\ SubSeq(CollNext(res), 1, Len(Coll(res))) = Coll(res)
            /\ resp'.body = Obj(StringifyRecord(CollNext(res)[Len(CollNext(res))]))
       /\ route' = DeleteRoute(res) /\ faults' < faults =>
            /\ resp'.status = 200
            /\ Len(CollNext(res)) = Len(Coll(res)) - 1
            /\ resp'.body.type = "object"
            /\ resp'.body.val \in {StringifyRecord(Coll(res)[i]) : i \in 1..Len(Coll(res))}
       /\ Get1(res) => resp' = [status |-> 200, body |-> Arr(JSONStringify(Coll(res)))]
       /\ \A seg \in SegmentsFor(Coll(res)) :
            Get2(res, seg, IF seg = "search" THEN Str("HELLO") ELSE Undefined) =>
              IF seg \in IdsOf(Coll(res))
              THEN /\ resp'.status = 200
                   /\ resp'.body.type = "object"
                   /\ resp'.body.val \in RecordsWithId(Coll(res), seg)
              ELSE resp'.status = 404
    ]_vars

\* C11's case: GET /tracks answered the records a POST added although the write of
\* that POST had failed and data.json holds fewer records
C11_Witness ==
  /\ Answered(1, 200)
  /\ lastSave.tracks = "failed"
  /\ Len(tracks) > 0
  /\ resp.body = Arr(JSONStringify(tracks))
  /\ dataFile.state = "json" => Len(dataFile.data) < Len(tracks)

-----------------------------------------------------------------------------
(* C12 *)

\* a and b are equal or one is the other with a single record removed
DiffersByAtMostOne(a, b) ==
  \/ a = b
  \/ Len(a) = Len(b) + 1 /\ \E i \in 1..Len(a) : Splice(a, i) = b
  \/ Len(b) = Len(a) + 1 /\ \E i \in 1..Len(b) : Splice(b, i) = a

\* C12, as claimed: whenever the process stops or is killed, at any point, the
\* collections the next start reads back differ from the ones its memory held by at
\* most the one most recent create or delete.
C12_CrashLosesOneWrite ==
  [][Restart =>
       \A res \in Resources :
         DiffersByAtMostOne(JSONStringify(Coll(res)), JSONStringify(CollNext(res)))
    ]_vars

-----------------------------------------------------------------------------
(* C13 *)

\* two requests that were on the wire at the same time were both answered with
\* success on the same collection and its file is not the collection they left (the
\* array is shared and updated in place, so it holds what each of them did)
LostUpdate ==
  \E c \in Clients, d \in Clients :
    /\ c # d
    /\ inflight[c].state = "answered" /\ inflight[d].state = "answered"
    /\ inflight[c].overlap /\ inflight[d].overlap
    /\ inflight[c].status \in {200, 201} /\ inflight[d].status \in {200, 201}
    /\ inflight[c].res = inflight[d].res
    /\ FileOf(inflight[c].res) # JsonFile(JSONStringify(Coll(inflight[c].res)))

\* C13, as claimed: clients that keep sending simultaneous creates and deletes reach
\* a state in which two of them were both answered with success and the file lacks
\* what one of them did.
C13_LostUpdateReachable == <>LostUpdate

\* C13, amended: simultaneous creates and deletes are handled one after the other:
\* each one answered with success appended its record to, resp. removed its record
\* from, the collection the earlier ones left, and wrote that whole collection to
\* the file; no state with a lost update is reached.
C13_NoLostUpdate ==
  [][\A c \in Clients :
       Serve(c) =>
         LET res == inflight[c].res IN
         /\ resp'.status = 201 =>
              /\ CollNext(res) = Coll(res) \o <<CollNext(res)[Len(CollNext(res))]>>
              /\ resp'.body = Obj(StringifyRecord(CollNext(res)[Len(CollNext(res))]))
         /\ resp'.status = 200 =>
              \E i \in 1..Len(Coll(res)) :
                /\ Get(Coll(res)[i], "id") = Str(inflight[c].seg)
                /\ CollNext(res) = SubSeq(Coll(res), 1, i - 1)
                                     \o SubSeq(Coll(res), i + 1, Len(Coll(res)))
         /\ resp'.status \in {200, 201} =>
              FileNext(res) = JsonFile(JSONStringify(CollNext(res)))
         /\ ~LostUpdate'
    ]_vars

\* C13's case: two POSTs on the same collection were on the wire at the same time
\* and both were answered 201
C13_Witness ==
  \E c \in Clients, d \in Clients :
    /\ c # d
    /\ inflight[c].state = "answered" /\ inflight[d].state = "answered"
    /\ inflight[c].overlap /\ inflight[d].overlap
    /\ inflight[c].status = 201 /\ inflight[d].status = 201
    /\ inflight[c].res = inflight[d].res
    /\ Len(Coll(inflight[c].res)) >= 2

-----------------------------------------------------------------------------
(* C14 *)

\* v is a string generateId can return
IsGeneratedId(v) == \E t \in Clocks, r \in RandomSuffixes : v = generateId(t, r)

\* the record has every field of the seed entry with the entry's value and, besides
\* them, only an id
CarriesEntry(record, entry) ==
  /\ DOMAIN record = DOMAIN entry \cup {"id"}
  /\ \A k \in DOMAIN entry \ {"id"} : record[k] = entry[k]

\* C14, as claimed, for a start that finds no data.json, finds the seed library and
\* whose write of data.json succeeds: the tracks are the seed entries in seed order,
\* each with an id generateId produced, and data.json holds that sequence.
SeededWithGeneratedIds(ts, file, seed) ==
  /\ Len(ts) = Len(seed)
  /\ \A i \in 1..Len(seed) : CarriesEntry(ts[i], seed[i]) /\ IsGeneratedId(ts[i].id)
  /\ file = JsonFile(JSONStringify(ts))

SeededKeepingIds(ts, file, save, seed) ==
  IF save = "ok"
  THEN /\ Len(ts) = Len(seed)
       /\ \A i \in 1..Len(seed) :
            /\ CarriesEntry(ts[i], seed[i])
            /\ IF "id" \in DOMAIN seed[i] THEN ts[i].id = seed[i].id
                                           ELSE IsGeneratedId(ts[i].id)
       /\ file = JsonFile(JSONStringify(ts))
  ELSE /\ save = "failed"
       /\ ts = <<>>
       /\ file.state # "json"

-----------------------------------------------------------------------------
(* C15 *)

\* C15, as claimed: a start that finds data.json malformed ends with the tracks a
\* start without data.json would end with, a start that finds videos.json malformed
\* with no videos; and on a collection started from a malformed file GET
\* /<resource>, GET /<resource>/<id>, POST, DELETE and GET /<resource>/search all
\* answer with a success status, the lists and the search with an array.
C15_MalformedLikeMissing ==
  [][/\ Restart /\ dataFile.state = "malformed" =>
          \E o \in loadTracks(Absent, seedFile, now, faults) : tracks' = o.tracks
     /\ Restart /\ videosFile.state = "malformed" => videos' = <<>>
     /\ \A res \in Resources :
          Alive /\ FileOf(res).state = "malformed" =>
            /\ Get1(res) => resp'.status = 200 /\ resp'.body.type = "array"
            /\ \A seg \in IdsOf(Coll(res)) :
                 /\ Get2(res, seg, Undefined) => resp'.status = 200
                 /\ Delete2(res, seg) => resp'.status = 200
            /\ \A body \in AcceptedBodies(res) : Post1(res, body) => resp'.status = 201
            /\ Get2(res, "search", Str("HELLO")) =>
                 resp'.status = 200 /\ resp'.body.type = "array"
    ]_vars

-----------------------------------------------------------------------------
(* C16 *)

\* the record as JSON, without its id
WithoutId(record) ==
  [k \in DOMAIN StringifyRecord(record) \ {"id"} |-> record[k]]

\* C16, as claimed: while the process runs, every record of a collection after a
\* step is a record the collection held before it, id included, or the one a POST
\* just appended; and a record that is in a collection before and after a restart
\* (the same fields, the id apart) is there with the id it had.
C16_IdNeverChanges ==
  [][\A res \in Resources :
       IF route' = 0
       THEN \A i \in 1..Len(Coll(res)), j \in 1..Len(CollNext(res)) :
              WithoutId(Coll(res)[i]) = WithoutId(CollNext(res)[j]) =>
                \E k \in 1..Len(CollNext(res)) :
                  StringifyRecord(CollNext(res)[k]) = StringifyRecord(Coll(res)[i])
       ELSE \A j \in 1..Len(CollNext(res)) :
              \/ \E i \in 1..Len(Coll(res)) : CollNext(res)[j] = Coll(res)[i]
              \/ route' = CreateRoute(res) /\ j = Len(CollNext(res))
    ]_vars

-----------------------------------------------------------------------------
(* C17 *)

\* C17: a POST answered 201 leaves every record at its position and puts the new
\* record, the one it answers, after them; a DELETE answered 200 takes out one
\* record, the one it answers, and leaves the others in their order; GET /<resource>
\* answers the records in the collection's order and changes nothing.
C17_OrderPreserved ==
  [][\A res \in Resources :
       /\ \A body \in AcceptedBodies(res) :
            Request("POST", <<res>>, "", Undefined, body) =>
            /\ resp'.status = 201
            /\ Len(CollNext(res)) = Len(Coll(res)) + 1
            /\ \A i \in 1..Len(Coll(res)) : CollNext(res)[i] = Coll(res)[i]
            /\ resp'.body = Obj(StringifyRecord(CollNext(res)[Len(CollNext(res))]))
       /\ \A seg \in IdsOf(Coll(res)) :
            Delete2(res, seg) =>
            /\ resp'.status = 200
            /\ Len(CollNext(res)) = Len(Coll(res)) - 1
            /\ \E idx \in 1..Len(Coll(res)) :
                 /\ Get(Coll(res)[idx], "id") = Str(seg)
                 /\ resp'.body = Obj(StringifyRecord(Coll(res)[idx]))
                 /\ \A i \in 1..(idx - 1) : CollNext(res)[i] = Coll(res)[i]
                 /\ \A i \in idx..Len(CollNext(res)) : CollNext(res)[i] = Coll(res)[i + 1]
       /\ Get1(res) =>
            /\ resp'.status = 200
            /\ resp'.body.type = "array"
            /\ Len(resp'.body.val) = Len(Coll(res))
            /\ \A i \in 1..Len(Coll(res)) : resp'.body.val[i] = StringifyRecord(Coll(res)[i])
            /\ CollNext(res) = Coll(res)
    ]_vars

\* C17's case: a DELETE took a record out of three tracks and left two different
\* ones, which a GET /tracks then listed
C17_Witness ==
  /\ Answered(1, 200)
  /\ Len(tracks) = 2
  /\ tracks[1] # tracks[2]
  /\ resp.body = Arr(JSONStringify(tracks))
  /\ dataFile = JsonFile(JSONStringify(tracks))
  /\ \E i \in 1..2 : Get(tracks[i], "id") = Str("lib-2")
  /\ \E i \in 1..2 : IsSongA(tracks[i])

-----------------------------------------------------------------------------
(* C18 *)

\* C18, as claimed: on every collection that a start and accepted POSTs produce, the
\* search callback run with a non-empty q answers 200 with the records that have q
\* in a searched field that is a string; a searched field that is missing, null or
\* not a string matches nothing and fails nothing.
C18_SearchNeverFails ==
  [][\A res \in Resources, q \in Queries :
       q.type = "string" /\ q.val # "" /\ SearchHandler(res, q) =>
         resp' = [status |-> 200,
                  body |-> Arr(JSONStringify(
                             SelectSeq(Coll(res), LAMBDA r : MatchesQuery(res, r, q.val))))]
    ]_vars

-----------------------------------------------------------------------------
(* C19 *)

\* C19, as claimed: the record a POST /videos answered 201 appends has a non-empty
\* title, a url or a localUri that is not null, the createdAt of the instant of the
\* request, and in each of url, localUri, thumbnail and duration the value the body
\* has for it, a duration of 0 included, or null when the body has none.
C19_VideoRecordFields ==
  [][\A body \in IF route' = 8 THEN VideoBodies ELSE {} :
       Post1("videos", body) /\ resp'.status = 201 =>
         LET v == videos'[Len(videos')] IN
         /\ v.title \notin {Undefined, Null, Str("")}
         /\ v.url # Null \/ v.localUri # Null
         /\ v.createdAt = Str(ToISOString(now'))
         /\ \A k \in {"url", "localUri", "thumbnail", "duration"} :
              v[k] = IF k \in DOMAIN body THEN body[k] ELSE Null
    ]_vars

-----------------------------------------------------------------------------
(* C20 *)

Other(res) == IF res = "tracks" THEN "videos" ELSE "tracks"

\* the step is a POST or DELETE on res answered with success (a step that is neither
\* a Tick nor a Restart is a request, handled by route')
MutatedBy(res) ==
  /\ now' = now
  /\ route' \in {CreateRoute(res), DeleteRoute(res)}
  /\ resp'.status \in {200, 201}

\* what C20 says of one create or delete on res
WritesWholeCollection(res) ==
  /\ lastSave'[res] = "ok" => FileNext(res) = JsonFile(JSONStringify(CollNext(res)))
  /\ FileNext(res).state = "json" =>
       FileNext(res) = FileOf(res) \/ FileNext(res).data = JSONStringify(CollNext(res))
  /\ CollNext(Other(res)) = Coll(Other(res))
  /\ FileNext(Other(res)) = FileOf(Other(res))

\* C20: after a create or delete whose write succeeds the collection's file holds
\* exactly the in-memory collection, whatever earlier writes did; after one whose
\* write fails the file, if it parses, holds what it held before, never a mix; and
\* the other collection and the other file are as they were.
C20_FileIsWholeCollection ==
  [][\A res \in Resources :
       MutatedBy(res) => WritesWholeCollection(res)
    ]_vars

\* C20's case: with no seed, a POST /tracks was written to data.json after the write
\* of an earlier request had failed, and data.json holds both tracks
C20_Witness ==
  /\ seedFile = Absent
  /\ Answered(3, 201)
  /\ lastSave.tracks = "ok"
  /\ faults < MaxWriteFailures
  /\ Len(tracks) = 2
  /\ dataFile = JsonFile(JSONStringify(tracks))

-----------------------------------------------------------------------------
(* C21 *)

\* a step in which playTrack is called from a press: of an item, of Next, of Previous
PlayTrackPressed == PressItem \/ PressNext \/ PressPrevious

\* what an invocation of playTrack may write, and the requests sent to sounds
LoadState(p) ==
  <<p.tracks, p.sound, p.playingUrl, p.activeTrack, p.isLoadingRef, p.calls, p.requests,
    p.fetching>>

\* C21: isLoadingRef is true exactly while one invocation of playTrack is between its
\* entry guard and its finally block, so no two loads are ever in flight; a call of
\* playTrack that arrives meanwhile, from a press or from the didJustFinish callback,
\* returns with the state as it found it (the callback itself having written only the
\* playing flags before the call); and an invocation ends only by createAsync resolving
\* or throwing, either of which leaves the flag false.
C21_OneLoadAtATime ==
  /\ [](Len(player.calls) <= 1 /\ player.isLoadingRef = (Len(player.calls) = 1))
  /\ [][
        /\ (player.isLoadingRef /\ PlayTrackPressed) =>
             (/\ player'.log.called /\ ~player'.log.started
              /\ [player' EXCEPT !.log = player.log] = player)
        /\ (player.isLoadingRef /\ Finish) =>
             (/\ player'.log.called /\ ~player'.log.started
              /\ LoadState(player') = LoadState(player))
        /\ Len(player'.calls) < Len(player.calls) =>
             (/\ CreateResolved \/ CreateThrew
              /\ ~player'.isLoadingRef
              /\ player'.calls = <<>>)
     ]_vars

\* a load is in flight, and the call of playTrack just made was turned away at the guard
C21_Witness ==
  /\ player.isLoadingRef
  /\ Len(player.calls) = 1
  /\ player.log.called
  /\ ~player.log.started

-----------------------------------------------------------------------------
(* C22 *)

\* the first track of the list with the url of the active track is at index i
FoundAt(i) ==
  /\ i \in 0..(Len(player.tracks) - 1)
  /\ player.tracks[i + 1] = player.activeTrack
  /\ \A j \in 0..(i - 1) : player.tracks[j + 1] # player.activeTrack

\* there is no active track, or no track of the list has its url
ActiveAbsent == \A i \in 0..(Len(player.tracks) - 1) : ~FoundAt(i)

\* the step called playTrack with the track at index idx, and nothing else happened:
\* the invocation either began its load of that track or was turned away
Selected(idx) ==
  /\ idx \in 0..(Len(player.tracks) - 1)
  /\ player'.log.called
  /\ player'.log.idx = idx
  /\ player'.log.track = player.tracks[idx + 1]
  /\ IF player.isLoadingRef
     THEN ~player'.log.started /\ player'.calls = player.calls
     ELSE /\ player'.log.started
          /\ Len(player'.calls) = 1
          /\ player'.calls[1].track = player.tracks[idx + 1]

\* the step called nothing and changed nothing
NothingDone ==
  /\ ~player'.log.called
  /\ [player' EXCEPT !.log = player.log] = player

\* C22: on a list of n > 0 tracks playNext and playPrevious each select an index within
\* 0..n-1: playNext (i + 1) mod n when the active track is found at index i, and 0 when
\* there is no active track or it is not in the list; playPrevious i - 1 when i > 0, and
\* n - 1 when i = 0 or the active track is absent.  On an empty list both do nothing.
C22_SelectionWraps ==
  [][LET n == Len(player.tracks) IN
       /\ CallPlayNext =>
            IF n = 0
            THEN NothingDone
            ELSE /\ \E idx \in 0..(n - 1) : Selected(idx)
                 /\ \A i \in 0..(n - 1) : FoundAt(i) => Selected((i + 1) % n)
                 /\ ActiveAbsent => Selected(0)
       /\ CallPlayPrevious =>
            IF n = 0
            THEN NothingDone
            ELSE /\ \E idx \in 0..(n - 1) : Selected(idx)
                 /\ \A i \in 1..(n - 1) : FoundAt(i) => Selected(i - 1)
                 /\ (FoundAt(0) \/ ActiveAbsent) => Selected(n - 1)
    ]_vars

\* playNext was just called with the active track last in a list of several tracks, and
\* began the load of the first track of the list
C22_Witness ==
  /\ Len(player.tracks) > 1
  /\ player.activeTrack = player.tracks[Len(player.tracks)]
  /\ \A j \in 1..(Len(player.tracks) - 1) : player.tracks[j] # player.activeTrack
  /\ player.log.fn = "playNext"
  /\ player.log.idx = 0
  /\ player.log.started
  /\ Len(player.calls) = 1
  /\ player.calls[1].track = player.tracks[1]

-----------------------------------------------------------------------------
(* C23 *)

\* the sound the component holds is loaded and plays
ActuallyPlaying ==
  /\ player.sound # NoSound
  /\ player.sounds[player.sound].loaded
  /\ player.sounds[player.sound].playing

\* the app has made one sound, holds it loaded, and no playTrack is at work
OneSoundHeld ==
  /\ Len(player.sounds) = 1
  /\ player.sound = 1
  /\ player.sounds[1].loaded
  /\ player.calls = <<>>

\* C23: whatever the order of toggles and of rejected requests, once no pauseAsync or
\* playAsync is pending isPlayingRef tells whether the sound is actually playing (stated
\* of the sound of the first track played, while the app holds it).
C23_FlagMatchesSound ==
  (OneSoundHeld /\ player.requests = <<>>) => player.isPlayingRef = ActuallyPlaying

====
